---- MODULE Spec2Model ----
(***************************************************************************)
(* Model of the rohan build pipeline (mood-agency/relay):                  *)
(*   src/src/commands.rs  test_name_to_filename, build_from_plan and its   *)
(*                        write_callback                                   *)
(*   src/src/main.rs      main's handling of the Build command             *)
(* The generator crate module (TestPlan::load, build_scripts_from_plan,    *)
(* the worker pool, the rate limiter and the result aggregator) is not     *)
(* part of the available sources; it is modelled from spec.md sections     *)
(* 4.2, 4.3, 4.6 and 5.                                                    *)
(***************************************************************************)
EXTENDS Integers, Sequences, FiniteSets, TLC

(***************************************************************************)
(* Characters.  A Rust char is modelled as a one-character string and a    *)
(* &str as a sequence of them.                                             *)
(***************************************************************************)
AsciiUpper == <<"A", "B", "C", "D", "E", "F", "G", "H", "I", "J", "K", "L", "M", "N", "O", "P", "Q", "R", "S", "T", "U", "V", "W", "X", "Y", "Z">>
AsciiLower == <<"a", "b", "c", "d", "e", "f", "g", "h", "i", "j", "k", "l", "m", "n", "o", "p", "q", "r", "s", "t", "u", "v", "w", "x", "y", "z">>
AsciiDigit == <<"0", "1", "2", "3", "4", "5", "6", "7", "8", "9">>

\* Alphabetic characters outside ASCII, written by code point: an upper-case
\* letter, its lower-case form, and a letter without case.
NonAsciiUpper == <<"U+00C9">>
NonAsciiLower == <<"U+00E9">>
NonAsciiUncased == <<"U+4E2D">>

Range(s) == {s[i] : i \in 1..Len(s)}

\* The position of c in s (0 when absent)
IndexOf(c, s) == IF c \in Range(s) THEN CHOOSE i \in 1..Len(s) : s[i] = c ELSE 0

\* char::is_alphanumeric: the Unicode Alphabetic and Numeric classes
IsAlphanumeric(c) ==
    c \in Range(AsciiUpper) \cup Range(AsciiLower) \cup Range(AsciiDigit)
          \cup Range(NonAsciiUpper) \cup Range(NonAsciiLower) \cup Range(NonAsciiUncased)

\* char::to_ascii_lowercase: maps 'A'..'Z' to 'a'..'z', every other char to itself
ToAsciiLowercase(c) ==
    IF c \in Range(AsciiUpper) THEN AsciiLower[IndexOf(c, AsciiUpper)] ELSE c

\* char::to_lowercase, the full Unicode mapping (what "lower-cased" means for
\* a letter outside ASCII); used only to state the filename claim
ToLowercase(c) ==
    IF c \in Range(NonAsciiUpper) THEN NonAsciiLower[IndexOf(c, NonAsciiUpper)]
    ELSE ToAsciiLowercase(c)

(***************************************************************************)
(* test_name_to_filename (commands.rs 12-43), computed as the code does:   *)
(* map, then the collapsing loop, then trim_end_matches, then format!.     *)
(***************************************************************************)
\* lines 13-22: alphanumerics to ASCII lower case, everything else to '_'
Sanitize(name) ==
    [i \in 1..Len(name) |->
        IF IsAlphanumeric(name[i]) THEN ToAsciiLowercase(name[i]) ELSE "_"]

\* lines 25-37: the loop over sanitized, with result and prev_underscore
RECURSIVE Collapse(_, _, _)
Collapse(s, result, prev_underscore) ==
    IF s = <<>> THEN result
    ELSE LET c == Head(s) IN
         IF c = "_"
         THEN Collapse(Tail(s),
                       IF ~prev_underscore /\ result # <<>>
                       THEN Append(result, c) ELSE result,
                       TRUE)
         ELSE Collapse(Tail(s), Append(result, c), FALSE)

\* line 40: str::trim_end_matches(ch)
RECURSIVE TrimEndMatches(_, _)
TrimEndMatches(s, ch) ==
    IF s # <<>> /\ s[Len(s)] = ch
    THEN TrimEndMatches(SubSeq(s, 1, Len(s) - 1), ch)
    ELSE s

\* line 42: format!("test_{}.js", result)
FormatFilename(result) == <<"t", "e", "s", "t", "_">> \o result \o <<".", "j", "s">>

test_name_to_filename(name) ==
    FormatFilename(TrimEndMatches(Collapse(Sanitize(name), <<>>, FALSE), "_"))

\* The names and expected file names of the unit tests (commands.rs 611-665)
NameAckTimeout == <<"G", "e", "t", "_", "M", "e", "s", "s", "a", "g", "e", "_", "W", "i", "t", "h", "_", "A", "c", "k", "T", "i", "m", "e", "o", "u", "t">>
FileAckTimeout == <<"t", "e", "s", "t", "_", "g", "e", "t", "_", "m", "e", "s", "s", "a", "g", "e", "_", "w", "i", "t", "h", "_", "a", "c", "k", "t", "i", "m", "e", "o", "u", "t", ".", "j", "s">>
NameSpecialChars == <<"T", "e", "s", "t", ":", " ", "A", "P", "I", "/", "E", "n", "d", "p", "o", "i", "n", "t", " ", "(", "v", "2", ")">>
FileSpecialChars == <<"t", "e", "s", "t", "_", "t", "e", "s", "t", "_", "a", "p", "i", "_", "e", "n", "d", "p", "o", "i", "n", "t", "_", "v", "2", ".", "j", "s">>
NameLeadingSpecial == <<"-", "-", "-", "T", "e", "s", "t", " ", "N", "a", "m", "e", "-", "-", "-">>
FileLeadingSpecial == <<"t", "e", "s", "t", "_", "t", "e", "s", "t", "_", "n", "a", "m", "e", ".", "j", "s">>
NameMultipleUnderscores == <<"T", "e", "s", "t", "_", "_", "_", "M", "u", "l", "t", "i", "p", "l", "e", "_", "_", "_", "U", "n", "d", "e", "r", "s", "c", "o", "r", "e", "s">>
FileMultipleUnderscores == <<"t", "e", "s", "t", "_", "t", "e", "s", "t", "_", "m", "u", "l", "t", "i", "p", "l", "e", "_", "u", "n", "d", "e", "r", "s", "c", "o", "r", "e", "s", ".", "j", "s">>

(***************************************************************************)
(* Bounds of the model.                                                    *)
(***************************************************************************)
\* longest artifact name drawn for the file-name derivation
MaxLen == 3
\* most work items in one plan
MaxItems == 2
\* worker threads of the pool
NumWorkers == 2
\* invocations of the build command over the same output directory
MaxRuns == 2
\* largest requests-per-minute setting drawn for the rate limiter
MaxRpm == 2
\* clock ticks the rate limiter is observed for
MaxTicks == 3
\* largest batch size drawn for the worker pool
MaxBatch == 2
\* failures injected into one behaviour: a plan that does not load, a
\* directory or file that cannot be written, a completion that fails, an abort
MaxFaults == 1

\* The characters names are drawn from: an upper-case and a lower-case ASCII
\* letter, a digit, the underscore, another separator, and an upper-case
\* letter outside ASCII.
Alphabet == {"A", "b", "7", "_", "-", "U+00C9"}

SeqsUpTo(S, n) == UNION {[1..k -> S] : k \in 0..n}

\* Inputs of the file-name derivation
FnNames == SeqsUpTo(Alphabet, MaxLen)
             \cup {NameAckTimeout, NameSpecialChars, NameLeadingSpecial,
                   NameMultipleUnderscores}

\* Artifact names of the plans that are built.  The first two are distinct
\* names that derive the same file name.
NameList == << <<"A", " ", "B">>, <<"A", "_", "B">>, <<"C">> >>
TestNames == Range(NameList)

FileNames == {test_name_to_filename(n) : n \in TestNames}

Workers == 1..NumWorkers
NoWorker == 0

\* A path of the file system: absent, or a file with its content
Absent == [exists |-> FALSE, data |-> <<>>]
File(data) == [exists |-> TRUE, data |-> data]
\* fs::write is File::create (which truncates) followed by write_all: when it
\* fails after the create, the file is left without the content
Truncated == File(<<>>)
NoOut == <<>>
NoExit == -1

\* The item lists of the plans: at least one and at most MaxItems distinct
\* names, listed in the order of NameList
ItemLists ==
    {s \in SeqsUpTo(TestNames, MaxItems) :
        s # <<>> /\ \A i, j \in 1..Len(s) :
                       i < j => IndexOf(s[i], NameList) < IndexOf(s[j], NameList)}

\* TestPlan (generator): exactly one of tests / scenarios is populated,
\* selected by e2e.
PlanFiles ==
    {[e2e |-> e, tests |-> IF e THEN <<>> ELSE l, scenarios |-> IF e THEN l ELSE <<>>] :
        e \in BOOLEAN, l \in ItemLists}

VARIABLES
    \* the file-name derivation
    fnName, fnOut,
    \* the file system: the plan file, the output directory, its script
    \* files and manifest.json
    planFile, dirExists, files, manifestFile,
    \* main and build_from_plan: position, arguments, loaded plan, the
    \* console warning, the Arc<Mutex<..>> manifest list and counter, the
    \* error returned, the process exit status
    bpc, run, args, plan, warned, entries, counter, lockOwner, err, exitStatus,
    \* the generator's worker pool and result aggregator
    gen, items, hasCallback, batchSize, workerCount, queue, aborted,
    wpc, wbatch, wid, wret, acc, final,
    \* the rate limiter
    rpm, count, windowStart, now, wws,
    \* history: what this invocation has done so far
    \* (with the items whose completion call or callback returned an error,
    \* the items whose callback found no file at its path, and what the
    \* callback of each item returned),
    \* the order in which callbacks took the counter, the order in which
    \* items got their result,
    \* the admissions of the rate limiter, the failures injected so far, and
    \* the script files as the first invocation left them
    hist, takeOrder, doneOrder, admitLog, snap, faults

fnVars == <<fnName, fnOut>>
fsVars == <<planFile, dirExists, files, manifestFile>>
buildVars == <<bpc, run, args, plan, warned, entries, counter, lockOwner, err, exitStatus>>
poolCfg == <<items, hasCallback, batchSize, workerCount>>
poolVars == <<gen, queue, aborted, wpc, wbatch, wid, wret, acc, final>>
rlVars == <<rpm, count, windowStart, now, wws>>
histVars == <<hist, takeOrder, doneOrder, admitLog, snap, faults>>
vars == <<fnVars, fsVars, buildVars, poolCfg, poolVars, rlVars, histVars>>

(***************************************************************************)
(* The state after construction.                                           *)
(***************************************************************************)
NoPlan == [e2e |-> FALSE, tests |-> <<>>, scenarios |-> <<>>]
NoHist == [mkdir |-> FALSE, flushes |-> 0, generated |-> FALSE, failed |-> {},
           absent |-> {}, returned |-> {}]

\* BuildArgs (cli): the fields build_from_plan reads
BuildArgs ==
    {[e2e |-> e, overwrite |-> o, workers |-> NumWorkers, rpm |-> 0, batch_size |-> 1] :
        e \in BOOLEAN, o \in BOOLEAN}

FnIdle == fnName = <<>> /\ fnOut = NoOut

FsInit ==
    /\ dirExists = FALSE
    /\ files = [f \in FileNames |-> Absent]
    /\ manifestFile = Absent

BuildIdle ==
    /\ plan = NoPlan /\ warned = FALSE
    /\ entries = <<>> /\ counter = 0 /\ lockOwner = NoWorker
    /\ err = "none" /\ exitStatus = NoExit

PoolOff ==
    /\ gen = "off" /\ queue = <<>> /\ aborted = FALSE
    /\ wpc = [w \in Workers |-> "idle"]
    /\ wbatch = [w \in Workers |-> <<>>]
    /\ wid = [w \in Workers |-> 0]
    /\ wret = [w \in Workers |-> "none"]
    /\ acc = {} /\ final = <<>>

\* wws[w] is the window a blocked caller waits out
NotBlocked == 0 - 1

RateLimiterNew(r) ==
    /\ rpm = r /\ count = 0 /\ windowStart = 0 /\ now = 0
    /\ wws = [w \in Workers |-> NotBlocked]

HistInit(f) ==
    /\ hist = NoHist /\ takeOrder = <<>> /\ doneOrder = <<>>
    /\ admitLog = <<>> /\ snap = <<>>
    /\ faults = f

\* The outcomes of a step that can fail: the failures are drawn only while
\* the behaviour has failures left
Outcomes(good, bad) == IF faults < MaxFaults THEN good \cup bad ELSE good
Fault(failed) == IF failed THEN faults + 1 ELSE faults

(***************************************************************************)
(* main and build_from_plan (main.rs 39-49, commands.rs 121-218).          *)
(***************************************************************************)
\* (the load error dropped instead of returned)
AfterLoad_ErrorIgnored(ok) == "mkdir"

\* line 124: TestPlan::load(&args.plan_path)? -- an error returns at once
AfterLoad(ok) == IF ok THEN "mkdir" ELSE "failed"

\* lines 124-141: load the plan, compare its mode with the --e2e flag (a
\* warning on the console, nothing else), print the item count
Load ==
    /\ bpc = "load"
    /\ \E ok \in Outcomes({TRUE}, {FALSE}) :
          /\ plan' = IF ok THEN planFile ELSE plan
          /\ warned' = (ok /\ planFile.e2e # args.e2e)
          /\ err' = IF ok THEN "none" ELSE "load"
          /\ bpc' = AfterLoad(ok)
          /\ faults' = Fault(~ok)
    /\ UNCHANGED <<run, args, entries, counter, lockOwner, exitStatus>>
    /\ UNCHANGED <<fnVars, fsVars, poolCfg, poolVars, rlVars>>
    /\ UNCHANGED <<hist, takeOrder, doneOrder, admitLog, snap>>

\* line 144: fs::create_dir_all(&args.output)?
AfterCreateDir(ok) == IF ok THEN "generate" ELSE "failed"

CreateDir ==
    /\ bpc = "mkdir"
    /\ \E ok \in Outcomes({TRUE}, {FALSE}) :
          /\ dirExists' = (dirExists \/ ok)
          /\ err' = IF ok THEN err ELSE "mkdir"
          /\ bpc' = AfterCreateDir(ok)
          /\ faults' = Fault(~ok)
    /\ hist' = [hist EXCEPT !.mkdir = TRUE]
    /\ UNCHANGED <<run, args, plan, warned, entries, counter, lockOwner, exitStatus>>
    /\ UNCHANGED <<planFile, files, manifestFile>>
    /\ UNCHANGED <<fnVars, poolCfg, poolVars, rlVars, takeOrder, doneOrder, admitLog, snap>>

\* (the item list selected by the --e2e flag)
PlanItems_ByFlag(p) == IF args.e2e THEN p.scenarios ELSE p.tests

\* lines 137-141, 186: the plan's own mode selects the item list
PlanItems(p) == IF p.e2e THEN p.scenarios ELSE p.tests

\* generator (4.3): items are grouped into batches of at most b, in order
RECURSIVE Batches(_, _)
Batches(idxs, b) ==
    IF idxs = <<>> THEN <<>>
    ELSE IF Len(idxs) <= b THEN <<idxs>>
    ELSE <<SubSeq(idxs, 1, b)>> \o Batches(SubSeq(idxs, b + 1, Len(idxs)), b)

\* lines 147-197: the manifest list and the counter are created, the
\* callback is boxed and build_scripts_from_plan is called with it
StartGenerate ==
    /\ bpc = "generate" /\ gen = "off"
    /\ entries' = <<>> /\ counter' = 0 /\ lockOwner' = NoWorker
    /\ items' = PlanItems(plan)
    /\ hasCallback' = TRUE
    /\ batchSize' = args.batch_size
    /\ workerCount' = args.workers
    /\ queue' = Batches([i \in 1..Len(PlanItems(plan)) |-> i], args.batch_size)
    /\ gen' = "running" /\ aborted' = FALSE
    /\ acc' = {} /\ final' = <<>>
    /\ hist' = [hist EXCEPT !.generated = TRUE]
    /\ UNCHANGED <<wpc, wbatch, wid, wret>>
    /\ UNCHANGED <<bpc, run, args, plan, warned, err, exitStatus>>
    /\ UNCHANGED <<fnVars, fsVars, rlVars, takeOrder, doneOrder, admitLog, snap, faults>>

\* (the generation error dropped instead of returned)
AfterGenerate_ErrorIgnored(ok) == "flush"

\* line 197: build_scripts_from_plan(...)? -- an error returns at once
AfterGenerate(ok) == IF ok THEN "flush" ELSE "failed"

GenerateReturned ==
    /\ bpc = "generate" /\ gen \in {"ok", "error"}
    /\ bpc' = AfterGenerate(gen = "ok")
    /\ err' = IF gen = "ok" THEN err ELSE "generate"
    /\ UNCHANGED <<run, args, plan, warned, entries, counter, lockOwner, exitStatus>>
    /\ UNCHANGED <<fnVars, fsVars, poolCfg, poolVars, rlVars, histVars>>

\* line 202: serde_json::to_string_pretty(&*manifest) -- the array of the
\* entries, in list order
ManifestJson(es) == es

\* lines 200-203: the manifest is written; fs::write(...)? returns its error
WriteManifest ==
    /\ bpc = "flush"
    /\ \E outcome \in Outcomes({"ok"}, {"create_failed", "write_failed"}) :
          /\ faults' = Fault(outcome # "ok")
          /\ manifestFile' = CASE outcome = "ok" -> File(ManifestJson(entries))
                               [] outcome = "create_failed" -> manifestFile
                               [] outcome = "write_failed" -> Truncated
          /\ bpc' = IF outcome = "ok" THEN "done" ELSE "failed"
          /\ err' = IF outcome = "ok" THEN err ELSE "manifest"
    /\ hist' = [hist EXCEPT !.flushes = @ + 1]
    /\ UNCHANGED <<run, args, plan, warned, entries, counter, lockOwner, exitStatus>>
    /\ UNCHANGED <<planFile, dirExists, files>>
    /\ UNCHANGED <<fnVars, poolCfg, poolVars, rlVars, takeOrder, doneOrder, admitLog, snap>>

\* The invocation wrote the manifest, every item was generated and every
\* callback returned Ok
RunClean ==
    /\ bpc = "done"
    /\ Len(final) = Len(items)
    /\ \A k \in 1..Len(final) : final[k].res = "Success"

\* main.rs 45-48 and 66: an Err exits the process with status 1, Ok(())
\* falls through to main's own Ok(())
ExitStatus(ok) == IF ok THEN 0 ELSE 1

MainReturn ==
    /\ bpc \in {"done", "failed"}
    /\ exitStatus' = ExitStatus(bpc = "done")
    /\ bpc' = "exited"
    /\ snap' = IF run = 1 /\ RunClean THEN <<files>> ELSE snap
    /\ UNCHANGED <<run, args, plan, warned, entries, counter, lockOwner, err>>
    /\ UNCHANGED <<fnVars, fsVars, poolCfg, poolVars, rlVars, hist, takeOrder, doneOrder, admitLog, faults>>

\* The command is run again over the same plan file and output directory: a
\* new process, with nothing kept but the file system.
Invoke ==
    /\ bpc = "exited" /\ run < MaxRuns
    /\ run' = run + 1
    /\ bpc' = "load"
    /\ plan' = NoPlan /\ warned' = FALSE
    /\ entries' = <<>> /\ counter' = 0 /\ lockOwner' = NoWorker
    /\ err' = "none" /\ exitStatus' = NoExit
    /\ gen' = "off" /\ queue' = <<>> /\ aborted' = FALSE
    /\ wpc' = [w \in Workers |-> "idle"]
    /\ wbatch' = [w \in Workers |-> <<>>]
    /\ wid' = [w \in Workers |-> 0]
    /\ wret' = [w \in Workers |-> "none"]
    /\ acc' = {} /\ final' = <<>>
    /\ items' = <<>> /\ hasCallback' = FALSE /\ batchSize' = 1 /\ workerCount' = NumWorkers
    /\ hist' = NoHist /\ takeOrder' = <<>> /\ doneOrder' = <<>>
    /\ UNCHANGED <<args, fnVars, fsVars, rlVars, admitLog, snap, faults>>

(***************************************************************************)
(* The worker pool and the result aggregator of the generator (spec.md     *)
(* 4.3, 4.6, 5): a shared queue of batches, workers that take the next     *)
(* batch, gate every outbound request through the rate limiter, call the   *)
(* completion service once per item, hand each completed item to the       *)
(* callback and record one result per item.                                *)
(***************************************************************************)
WindowSecs == 60
TickSecs == WindowSecs \div 2

CurIdx(w) == Head(wbatch[w])
CurName(w) == items[CurIdx(w)]

\* 4.3: the first available worker pulls the next batch
Pull(w) ==
    /\ gen = "running" /\ w <= workerCount
    /\ wpc[w] = "idle" /\ queue # <<>>
    /\ wbatch' = [wbatch EXCEPT ![w] = Head(queue)]
    /\ queue' = Tail(queue)
    /\ wpc' = [wpc EXCEPT ![w] = "acquire"]
    /\ UNCHANGED <<gen, aborted, wid, wret, acc, final>>
    /\ UNCHANGED <<fnVars, fsVars, buildVars, poolCfg, rlVars, histVars>>

\* 4.2: the window is reset when 60 s have passed since windowStart
WindowElapsed == now - windowStart >= WindowSecs
\* (one admission too many per window)
SlotFree_OffByOne(c) == c <= rpm

\* 4.2: a slot is free while count < rpm
SlotFree(c) == c < rpm

\* 4.2 acquire(), one pass under the limiter's lock: rpm = 0 admits at once;
\* otherwise reset an elapsed window, then take a slot or go to sleep until
\* the window boundary
Acquire(w) ==
    /\ wpc[w] = "acquire"
    /\ IF rpm = 0
       THEN /\ wpc' = [wpc EXCEPT ![w] = "call"]
            /\ UNCHANGED <<count, windowStart, wws, admitLog>>
       ELSE LET ws == IF WindowElapsed THEN now ELSE windowStart
                c == IF WindowElapsed THEN 0 ELSE count
            IN /\ windowStart' = ws
               /\ IF SlotFree(c)
                  THEN /\ count' = c + 1
                       /\ wpc' = [wpc EXCEPT ![w] = "call"]
                       /\ admitLog' = Append(admitLog, [t |-> now, ws |-> ws,
                                                     waited |-> wws[w] # NotBlocked])
                       /\ wws' = [wws EXCEPT ![w] = NotBlocked]
                  ELSE /\ count' = c
                       /\ wpc' = [wpc EXCEPT ![w] = "blocked"]
                       /\ wws' = [wws EXCEPT ![w] = ws]
                       /\ UNCHANGED admitLog
    /\ UNCHANGED <<rpm, now>>
    /\ UNCHANGED <<gen, queue, aborted, wbatch, wid, wret, acc, final>>
    /\ UNCHANGED <<fnVars, fsVars, buildVars, poolCfg, hist, takeOrder, doneOrder, snap, faults>>

\* 4.2: a blocked caller sleeps until the window boundary, then retries
Wake(w) ==
    /\ wpc[w] = "blocked"
    /\ now >= wws[w] + WindowSecs
    /\ wpc' = [wpc EXCEPT ![w] = "acquire"]
    /\ UNCHANGED <<gen, queue, aborted, wbatch, wid, wret, acc, final>>
    /\ UNCHANGED <<fnVars, fsVars, buildVars, poolCfg, rlVars, histVars>>

\* the clock
Tick ==
    /\ now < MaxTicks * TickSecs
    /\ now' = now + TickSecs
    /\ UNCHANGED <<rpm, count, windowStart, wws>>
    /\ UNCHANGED <<fnVars, fsVars, buildVars, poolCfg, poolVars, histVars>>

\* 3: GenerationResult, Success{artifact} or Failure{errorKind, message}
Success == [res |-> "Success", kind |-> "none"]
\* (the error swallowed: the item reported as a success)
Failure_AsSuccess(kind) == Success

Failure(kind) == [res |-> "Failure", kind |-> kind]

\* 4.6: the aggregator accumulates one result per item, keyed by its
\* submission index, as items complete; the worker goes on with its batch
Record(w, r) ==
    /\ acc' = acc \cup {[idx |-> CurIdx(w), res |-> r.res, kind |-> r.kind]}
    /\ doneOrder' = Append(doneOrder, CurIdx(w))
    /\ wbatch' = [wbatch EXCEPT ![w] = IF aborted THEN <<>> ELSE Tail(@)]
    /\ wpc' = [wpc EXCEPT ![w] =
                  IF aborted \/ Tail(wbatch[w]) = <<>> THEN "idle" ELSE "acquire"]

\* 4.4, 4.5, 4.6: the completion call and the parse of its reply end in an
\* artifact or in an error; an error is recorded as the item's Failure, an
\* artifact is handed to the callback when there is one
Call(w) ==
    /\ wpc[w] = "call"
    /\ \E ok \in Outcomes({TRUE}, {FALSE}) :
          /\ IF ok /\ hasCallback
             THEN /\ wpc' = [wpc EXCEPT ![w] = "cb_lock"]
                  /\ UNCHANGED <<wbatch, acc, doneOrder>>
             ELSE Record(w, IF ok THEN Success ELSE Failure("ServiceError"))
          /\ faults' = Fault(~ok)
          /\ hist' = [hist EXCEPT !.failed = IF ok THEN @ ELSE @ \cup {CurIdx(w)}]
    /\ UNCHANGED <<gen, queue, aborted, wid, wret, final>>
    /\ UNCHANGED <<fnVars, fsVars, buildVars, poolCfg, rlVars>>
    /\ UNCHANGED <<takeOrder, admitLog, snap>>

\* 4.6: the callback's Result: Ok(true) and Ok(false) are the item's
\* success, an Err is surfaced as the item's failure
ResultOf(ret) == IF ret = "Err" THEN Failure("SinkError") ELSE Success

\* 4.6: the callback has returned; its failure is that item's alone
Deliver(w) ==
    /\ wpc[w] = "cb_ret"
    /\ Record(w, ResultOf(wret[w]))
    /\ wid' = [wid EXCEPT ![w] = 0]
    /\ wret' = [wret EXCEPT ![w] = "none"]
    /\ UNCHANGED <<gen, queue, aborted, final>>
    /\ UNCHANGED <<fnVars, fsVars, buildVars, poolCfg, rlVars>>
    /\ UNCHANGED <<hist, takeOrder, admitLog, snap, faults>>

\* 5: the caller aborts (or the run hits a fatal error): queued batches are
\* discarded, requests in flight are aborted, a callback that is running
\* finishes (each artifact write is all-or-nothing per item)
Abort ==
    /\ gen = "running" /\ ~aborted
    /\ faults < MaxFaults
    /\ faults' = faults + 1
    /\ aborted' = TRUE
    /\ queue' = <<>>
    /\ wpc' = [w \in Workers |->
                 IF wpc[w] \in {"acquire", "blocked", "call"} THEN "idle" ELSE wpc[w]]
    /\ wbatch' = [w \in Workers |->
                 IF wpc[w] \in {"acquire", "blocked", "call"} THEN <<>> ELSE wbatch[w]]
    /\ UNCHANGED <<gen, wid, wret, acc, final>>
    /\ UNCHANGED <<fnVars, fsVars, buildVars, poolCfg, rlVars>>
    /\ UNCHANGED <<hist, takeOrder, doneOrder, admitLog, snap>>

\* 4.6 (b): the final collection is sorted by original submission index
RECURSIVE SortByIndex(_)
SortByIndex(rs) ==
    IF rs = {} THEN <<>>
    ELSE LET r == CHOOSE x \in rs : \A y \in rs : x.idx <= y.idx
         IN <<r>> \o SortByIndex(rs \ {r})

\* (the results returned in the order they arrived)
FinalCollection_AsCompleted(a) ==
    [k \in 1..Len(doneOrder) |-> CHOOSE r \in a : r.idx = doneOrder[k]]

FinalCollection(a) == SortByIndex(a)

\* 4.3: the pool waits for all workers to drain before it returns; an
\* aborted run returns the error, a finished one the ordered collection
PoolReturn ==
    /\ gen = "running"
    /\ queue = <<>> /\ \A w \in Workers : wpc[w] = "idle"
    /\ gen' = IF aborted THEN "error" ELSE "ok"
    /\ final' = IF aborted THEN <<>> ELSE FinalCollection(acc)
    /\ UNCHANGED <<queue, aborted, wpc, wbatch, wid, wret, acc>>
    /\ UNCHANGED <<fnVars, fsVars, buildVars, poolCfg, rlVars, histVars>>

(***************************************************************************)
(* write_callback (commands.rs 156-183), one action per group of lines.    *)
(* The MutexGuard cnt taken at line 161 is a local of the closure: the     *)
(* counter lock is released when the closure returns.                      *)
(***************************************************************************)
\* The script the completion service generated for an item; another
\* invocation of the command generates another text.
Script(name, r) == <<"script", name, r>>

\* line 180: format!("// Test: {}\n// Generated by Rohan\n\n{}", test_name, code)
Content(name, code) == <<"// Test: ", name, "\n// Generated by Rohan\n\n", code>>

\* lines 162-163: *cnt += 1; let id = *cnt;
NextId(c) == c + 1

\* (the guard dropped as soon as the id is read)
GuardAfterId_Dropped(w) == NoWorker

\* line 161: cnt is bound for the rest of the closure, so the lock stays
\* with this invocation after the id is taken
GuardAfterId(w) == w

\* (the guard leaked: the lock still held after the closure has returned)
Unlock_Kept(w) == lockOwner

\* the guard is dropped when the closure returns
Unlock(w) == IF lockOwner = w THEN NoWorker ELSE lockOwner

\* lines 157-163: derive the file name, lock the counter, take the next id
CbLock(w) ==
    /\ wpc[w] = "cb_lock"
    /\ lockOwner = NoWorker
    /\ counter' = NextId(counter)
    /\ wid' = [wid EXCEPT ![w] = NextId(counter)]
    /\ lockOwner' = GuardAfterId(w)
    /\ takeOrder' = Append(takeOrder, CurIdx(w))
    /\ wpc' = [wpc EXCEPT ![w] = "cb_push"]
    /\ UNCHANGED <<gen, queue, aborted, wbatch, wret, acc, final>>
    /\ UNCHANGED <<bpc, run, args, plan, warned, entries, err, exitStatus>>
    /\ UNCHANGED <<fnVars, fsVars, poolCfg, rlVars, hist, doneOrder, admitLog, snap, faults>>

\* lines 168-172: the manifest entry of this invocation
ManifestEntry(id, name) == [id |-> id, name |-> name, file |-> test_name_to_filename(name)]

\* lines 166-173: lock the manifest list, push the entry, unlock
CbPush(w) ==
    /\ wpc[w] = "cb_push"
    /\ entries' = Append(entries, ManifestEntry(wid[w], CurName(w)))
    /\ wpc' = [wpc EXCEPT ![w] = "cb_check"]
    /\ UNCHANGED <<gen, queue, aborted, wbatch, wid, wret, acc, final>>
    /\ UNCHANGED <<bpc, run, args, plan, warned, counter, lockOwner, err, exitStatus>>
    /\ UNCHANGED <<fnVars, fsVars, poolCfg, rlVars, histVars>>

\* (the overwrite flag not consulted)
SkipWrite_IgnoringOverwrite(f) == files[f].exists

\* line 176: file_path.exists() && !overwrite
SkipWrite(f) == files[f].exists /\ ~args.overwrite

\* lines 176-178: an existing file is kept unless overwrite is set: Ok(false)
CbCheck(w) ==
    /\ wpc[w] = "cb_check"
    /\ IF SkipWrite(test_name_to_filename(CurName(w)))
       THEN /\ wret' = [wret EXCEPT ![w] = "Skipped"]
            /\ wpc' = [wpc EXCEPT ![w] = "cb_ret"]
            /\ lockOwner' = Unlock(w)
            /\ hist' = [hist EXCEPT !.returned =
                           @ \cup {[idx |-> CurIdx(w), ret |-> "Skipped"]}]
       ELSE /\ wpc' = [wpc EXCEPT ![w] = "cb_write"]
            /\ hist' = [hist EXCEPT !.absent =
                           IF files[test_name_to_filename(CurName(w))].exists
                           THEN @ ELSE @ \cup {CurIdx(w)}]
            /\ UNCHANGED <<wret, lockOwner>>
    /\ UNCHANGED <<gen, queue, aborted, wbatch, wid, acc, final>>
    /\ UNCHANGED <<bpc, run, args, plan, warned, entries, counter, err, exitStatus>>
    /\ UNCHANGED <<fnVars, fsVars, poolCfg, rlVars>>
    /\ UNCHANGED <<takeOrder, doneOrder, admitLog, snap, faults>>

\* line 181: what fs::write leaves at the path
Written(f, outcome, content) ==
    CASE outcome = "ok" -> File(content)
      [] outcome = "create_failed" -> files[f]
      [] outcome = "write_failed" -> Truncated

\* lines 181-182: fs::write(..)? returns its error, otherwise Ok(true)
WriteResult(outcome) == IF outcome = "ok" THEN "Written" ELSE "Err"

\* lines 180-182: format the content, write the file, return
CbWrite(w) ==
    /\ wpc[w] = "cb_write"
    /\ \E outcome \in Outcomes({"ok"}, {"create_failed", "write_failed"}) :
          LET f == test_name_to_filename(CurName(w)) IN
          /\ files' = [files EXCEPT ![f] =
                          Written(f, outcome, Content(CurName(w), Script(CurName(w), run)))]
          /\ wret' = [wret EXCEPT ![w] = WriteResult(outcome)]
          /\ faults' = Fault(outcome # "ok")
          /\ hist' = [hist EXCEPT
                         !.failed = IF outcome = "ok" THEN @ ELSE @ \cup {CurIdx(w)},
                         !.returned = @ \cup {[idx |-> CurIdx(w),
                                                ret |-> WriteResult(outcome)]}]
    /\ wpc' = [wpc EXCEPT ![w] = "cb_ret"]
    /\ lockOwner' = Unlock(w)
    /\ UNCHANGED <<gen, queue, aborted, wbatch, wid, acc, final>>
    /\ UNCHANGED <<bpc, run, args, plan, warned, entries, counter, err, exitStatus>>
    /\ UNCHANGED <<planFile, dirExists, manifestFile>>
    /\ UNCHANGED <<fnVars, poolCfg, rlVars, takeOrder, doneOrder, admitLog, snap>>

(***************************************************************************)
(* Specifications.                                                         *)
(***************************************************************************)
\* The build command, run up to MaxRuns times over one output directory
Init ==
    /\ FnIdle
    /\ planFile \in PlanFiles
    /\ FsInit
    /\ bpc = "load" /\ run = 1 /\ args \in BuildArgs
    /\ BuildIdle
    /\ items = <<>> /\ hasCallback = FALSE /\ batchSize = 1 /\ workerCount = NumWorkers
    /\ PoolOff
    /\ RateLimiterNew(0)
    /\ HistInit(0)

Next ==
    \/ Load
    \/ CreateDir
    \/ StartGenerate
    \/ \E w \in Workers : Pull(w)
    \/ \E w \in Workers : Acquire(w)
    \/ \E w \in Workers : Call(w)
    \/ \E w \in Workers : CbLock(w)
    \/ \E w \in Workers : CbPush(w)
    \/ \E w \in Workers : CbCheck(w)
    \/ \E w \in Workers : CbWrite(w)
    \/ \E w \in Workers : Deliver(w)
    \/ Abort
    \/ PoolReturn
    \/ GenerateReturned
    \/ WriteManifest
    \/ MainReturn

Spec == Init /\ [][Next]_vars

\* build_from_plan from its call of build_scripts_from_plan (line 188) to the
\* return of that call, when nobody cancels the run and its threads are
\* scheduled fairly: the plan is loaded, the output directory is there and
\* empty, and the only errors left are those of single items.  The plan is a
\* unit test plan built without --e2e.
InitGenerate ==
    /\ FnIdle
    /\ planFile \in {p \in PlanFiles : ~p.e2e}
    /\ dirExists = TRUE
    /\ files = [f \in FileNames |-> Absent]
    /\ manifestFile = Absent
    /\ bpc = "generate" /\ run = 1
    /\ args \in {a \in BuildArgs : a.e2e = planFile.e2e}
    /\ plan = planFile /\ warned = FALSE
    /\ entries = <<>> /\ counter = 0 /\ lockOwner = NoWorker
    /\ err = "none" /\ exitStatus = NoExit
    /\ items = <<>> /\ hasCallback = FALSE /\ batchSize = 1 /\ workerCount = NumWorkers
    /\ PoolOff
    /\ RateLimiterNew(0)
    /\ HistInit(0)

NextGenerate ==
    \/ StartGenerate
    \/ \E w \in Workers : Pull(w)
    \/ \E w \in Workers : Acquire(w)
    \/ \E w \in Workers : Call(w)
    \/ \E w \in Workers : CbLock(w)
    \/ \E w \in Workers : CbPush(w)
    \/ \E w \in Workers : CbCheck(w)
    \/ \E w \in Workers : CbWrite(w)
    \/ \E w \in Workers : Deliver(w)
    \/ PoolReturn
    \/ GenerateReturned

SpecGenerate == InitGenerate /\ [][NextGenerate]_vars /\ WF_vars(NextGenerate)

\* The build command run again and again over one plan file and one output
\* directory, without --overwrite and with nothing failing
InitRerun ==
    /\ FnIdle
    /\ planFile \in PlanFiles
    /\ FsInit
    /\ bpc = "load" /\ run = 1
    /\ args \in {a \in BuildArgs : ~a.overwrite /\ a.e2e = planFile.e2e}
    /\ BuildIdle
    /\ items = <<>> /\ hasCallback = FALSE /\ batchSize = 1 /\ workerCount = NumWorkers
    /\ PoolOff
    /\ RateLimiterNew(0)
    /\ HistInit(MaxFaults)

NextRerun ==
    \/ Load
    \/ CreateDir
    \/ StartGenerate
    \/ \E w \in Workers : Pull(w)
    \/ \E w \in Workers : Acquire(w)
    \/ \E w \in Workers : Call(w)
    \/ \E w \in Workers : CbLock(w)
    \/ \E w \in Workers : CbPush(w)
    \/ \E w \in Workers : CbCheck(w)
    \/ \E w \in Workers : CbWrite(w)
    \/ \E w \in Workers : Deliver(w)
    \/ PoolReturn
    \/ GenerateReturned
    \/ WriteManifest
    \/ MainReturn
    \/ Invoke

SpecRerun == InitRerun /\ [][NextRerun]_vars

\* The pool as the plan command runs it (commands.rs 76-86): no callback.
\* n work items, batches of b, c workers, r requests per minute
WorkItems(n) == [i \in 1..n |-> NameList[3]]

PoolStarted(n, b, c, r, f) ==
    /\ FnIdle
    /\ planFile = NoPlan
    /\ FsInit
    /\ bpc = "plan" /\ run = 1
    /\ args = [e2e |-> FALSE, overwrite |-> FALSE, workers |-> c, rpm |-> r, batch_size |-> b]
    /\ BuildIdle
    /\ items = WorkItems(n) /\ hasCallback = FALSE /\ batchSize = b /\ workerCount = c
    /\ gen = "running" /\ queue = Batches([i \in 1..n |-> i], b) /\ aborted = FALSE
    /\ wpc = [w \in Workers |-> "idle"]
    /\ wbatch = [w \in Workers |-> <<>>]
    /\ wid = [w \in Workers |-> 0]
    /\ wret = [w \in Workers |-> "none"]
    /\ acc = {} /\ final = <<>>
    /\ RateLimiterNew(r)
    /\ HistInit(f)

\* The rate limiter under the pool's workers, with the clock running and no
\* completion failing: every request per minute setting up to MaxRpm, and
\* one work item more than the largest setting admits in one window
InitRL == \E r \in 0..MaxRpm : PoolStarted(MaxRpm + 1, 1, NumWorkers, r, MaxFaults)

NextRL ==
    \/ \E w \in Workers : Pull(w)
    \/ \E w \in Workers : Acquire(w)
    \/ \E w \in Workers : Wake(w)
    \/ \E w \in Workers : Call(w)
    \/ Tick
    \/ PoolReturn

SpecRL == InitRL /\ [][NextRL]_vars

\* The pool and the aggregator for every item count, batch size and worker
\* count within the bounds, unthrottled
InitPool ==
    \E n \in 1..(MaxItems + 1), b \in 1..MaxBatch, c \in 1..NumWorkers :
        PoolStarted(n, b, c, 0, 0)

NextPool ==
    \/ \E w \in Workers : Pull(w)
    \/ \E w \in Workers : Acquire(w)
    \/ \E w \in Workers : Call(w)
    \/ PoolReturn

SpecPool == InitPool /\ [][NextPool]_vars

\* The file-name derivation applied to every name of FnNames
Derive ==
    /\ fnOut = NoOut
    /\ fnOut' = test_name_to_filename(fnName)
    /\ UNCHANGED <<fnName, fsVars, buildVars, poolCfg, poolVars, rlVars, histVars>>

InitFn ==
    /\ fnName \in FnNames /\ fnOut = NoOut
    /\ planFile = [e2e |-> FALSE, tests |-> <<>>, scenarios |-> <<>>]
    /\ FsInit
    /\ bpc = "exited" /\ run = MaxRuns /\ args \in {a \in BuildArgs : ~a.e2e /\ ~a.overwrite}
    /\ BuildIdle
    /\ items = <<>> /\ hasCallback = FALSE /\ batchSize = 1 /\ workerCount = NumWorkers
    /\ PoolOff
    /\ RateLimiterNew(0)
    /\ HistInit(0)

NextFn == Derive

SpecFn == InitFn /\ [][NextFn]_vars

(***************************************************************************)
(* Claims.                                                                 *)
(***************************************************************************)

\* The file name as the specification describes it, stated position by
\* position: an alphanumeric character is kept, lower-cased; a character that
\* is not alphanumeric is kept, as one underscore, only when it starts a run
\* that has an alphanumeric character somewhere before it and somewhere after
DescribedKeeps(name, i) ==
    \/ IsAlphanumeric(name[i])
    \/ /\ i > 1 /\ IsAlphanumeric(name[i - 1])
       /\ \E j \in (i + 1)..Len(name) : IsAlphanumeric(name[j])

RECURSIVE DescribedBodyFrom(_, _)
DescribedBodyFrom(name, i) ==
    IF i > Len(name) THEN <<>>
    ELSE (IF DescribedKeeps(name, i)
          THEN <<IF IsAlphanumeric(name[i]) THEN ToLowercase(name[i]) ELSE "_">>
          ELSE <<>>) \o DescribedBodyFrom(name, i + 1)

DescribedFilename(name) ==
    <<"t", "e", "s", "t", "_">> \o DescribedBodyFrom(name, 1) \o <<".", "j", "s">>

\* C6: for every artifact name, test_name_to_filename returns "test_" + body
\* + ".js", where body is the name with every alphanumeric character
\* lower-cased, every maximal run of other characters replaced by one
\* underscore and leading and trailing underscores removed; the three names
\* of the specification give the three file names it lists.
C6_FilenameAsDescribed ==
    fnOut # NoOut =>
        /\ fnOut = DescribedFilename(fnName)
        /\ fnName = NameAckTimeout => fnOut = FileAckTimeout
        /\ fnName = NameSpecialChars => fnOut = FileSpecialChars
        /\ fnName = NameLeadingSpecial => fnOut = FileLeadingSpecial

\* The same, for the names that hold no upper-case letter outside ASCII
C6_AsciiNamesAsDescribed ==
    (fnOut # NoOut /\ \A i \in 1..Len(fnName) : fnName[i] \notin Range(NonAsciiUpper)) =>
        /\ fnOut = DescribedFilename(fnName)
        /\ fnName = NameAckTimeout => fnOut = FileAckTimeout
        /\ fnName = NameSpecialChars => fnOut = FileSpecialChars
        /\ fnName = NameLeadingSpecial => fnOut = FileLeadingSpecial
        /\ fnName = NameMultipleUnderscores => fnOut = FileMultipleUnderscores

\* The file a callback invocation is about, and what it is to hold
CbFile(w) == test_name_to_filename(CurName(w))
CbContent(w) == Content(CurName(w), Script(CurName(w), run))

\* Worker w's callback invocation returns in this step
CbReturns(w) == wpc[w] \in {"cb_check", "cb_write"} /\ wpc'[w] = "cb_ret"

\* C1 as stated: a callback invocation whose file exists, without overwrite,
\* leaves the file as it is and returns Skipped; every other invocation
\* leaves the header and the code in the file and returns Written.
C1_SkipOrWritten ==
    [][\A w \in Workers : CbReturns(w) =>
          IF files[CbFile(w)].exists /\ ~args.overwrite
          THEN files'[CbFile(w)] = files[CbFile(w)] /\ wret'[w] = "Skipped"
          ELSE files'[CbFile(w)] = File(CbContent(w)) /\ wret'[w] = "Written"]_vars

\* C1 as amended: a callback invocation whose file exists, without
\* overwrite, leaves the file as it is and returns Skipped, never an error;
\* every other invocation attempts the write, and either leaves the header
\* and the code in the file and returns Written, or returns the write's error.
C1_SkipOrWrittenOrError ==
    [][\A w \in Workers : CbReturns(w) =>
          IF files[CbFile(w)].exists /\ ~args.overwrite
          THEN files'[CbFile(w)] = files[CbFile(w)] /\ wret'[w] = "Skipped"
          ELSE \/ files'[CbFile(w)] = File(CbContent(w)) /\ wret'[w] = "Written"
               \/ wret'[w] = "Err" /\ files'[CbFile(w)] # File(CbContent(w))]_vars

\* C1 witness: an invocation has returned Skipped, without overwrite, on a
\* file that an earlier invocation for another name has written.
C1_Witness ==
    \E w \in Workers :
        /\ wpc[w] = "cb_ret" /\ wret[w] = "Skipped" /\ ~args.overwrite
        /\ \E n \in TestNames :
              /\ n # CurName(w)
              /\ files[CbFile(w)] = File(Content(n, Script(n, run)))

\* No callback invocation is between taking the counter and returning
NoCallbackRunning == \A w \in Workers : wpc[w] \notin {"cb_push", "cb_check", "cb_write"}

\* C3 as stated: once the callback invocations so far have returned, every
\* manifest entry names a file that exists in the output directory, and an
\* invocation that returned an error has no entry in the manifest.
C3_EntriesOnlyForWrittenFiles ==
    NoCallbackRunning =>
        /\ \A k \in 1..Len(entries) : files[entries[k].file].exists
        /\ \A w \in Workers :
              (wpc[w] = "cb_ret" /\ wret[w] = "Err") =>
                  \A k \in 1..Len(entries) : entries[k].id # wid[w]

\* C4: in list order the manifest entries carry the ids 1, 2, ..., n, and
\* the k-th entry is that of the k-th callback invocation to take the
\* counter, under every interleaving of the workers.
C4_IdsInCompletionOrder ==
    /\ Len(entries) <= Len(takeOrder)
    /\ \A k \in 1..Len(entries) :
          /\ entries[k].id = k
          /\ entries[k].name = items[takeOrder[k]]
          /\ entries[k].file = test_name_to_filename(items[takeOrder[k]])

\* C4 witness: two entries, the first of them for the item submitted second.
C4_Witness ==
    /\ Len(entries) = 2
    /\ takeOrder = <<2, 1>>
    /\ entries[1].name = items[2] /\ entries[2].name = items[1]

\* What C5 says of every state ...
FlushedOnlyAtEnd ==
    /\ hist.flushes <= 1
    /\ hist.flushes = 1 =>
          /\ gen = "ok" /\ err \in {"none", "manifest"}
          /\ \A w \in Workers : wpc[w] = "idle"
    /\ bpc = "done" => hist.flushes = 1 /\ manifestFile = File(ManifestJson(entries))
\* ... and of every step: manifest.json changes only in a flush, and the
\* list gets no entry once the flush has happened
FlushIsFinal ==
    /\ manifestFile' # manifestFile => hist'.flushes = hist.flushes + 1
    /\ hist.flushes >= 1 => entries' = entries

\* C5 as stated: every invocation of build_from_plan writes manifest.json
\* exactly once, after script generation has returned and every callback
\* invocation has finished, with every entry appended during the run, and no
\* entry is appended after the flush.
C5_FlushedOncePerInvocation ==
    [][/\ FlushedOnlyAtEnd'
       /\ FlushIsFinal
       /\ bpc' \in {"done", "failed"} =>
             hist'.flushes = 1 /\ manifestFile' = File(ManifestJson(entries'))]_vars

\* C5 as amended: manifest.json is written at most once per invocation of
\* build_from_plan, only after script generation has returned successfully
\* (so after every callback invocation has finished), and never by an
\* invocation that fails before that; an invocation that returns Ok has
\* written it exactly once, with every entry appended during the run; no
\* entry is appended after the flush.
C5_FlushedOnceAtEnd ==
    [][/\ FlushedOnlyAtEnd'
       /\ FlushIsFinal
       /\ (bpc' = "failed" /\ err' \in {"load", "mkdir", "generate"}) =>
             hist'.flushes = 0 /\ manifestFile' = manifestFile]_vars

\* C5 witness: the invocation has returned Ok with two entries in the
\* manifest it wrote.
C5_Witness ==
    /\ bpc = "done" /\ hist.flushes = 1
    /\ Len(entries) = 2 /\ manifestFile = File(ManifestJson(entries))

\* C7: when TestPlan::load fails, build_from_plan returns the error before
\* it creates the output directory, starts script generation or invokes a
\* callback, and without writing manifest.json; main exits with status 1.
C7_PlanErrorIsFatal ==
    err = "load" =>
        /\ bpc \in {"failed", "exited"}
        /\ ~hist.mkdir /\ ~dirExists
        /\ ~hist.generated /\ gen = "off"
        /\ counter = 0 /\ takeOrder = <<>> /\ entries = <<>>
        /\ \A f \in FileNames : ~files[f].exists
        /\ hist.flushes = 0 /\ ~manifestFile.exists
        /\ bpc = "exited" => exitStatus = 1

\* C7 witness: the plan did not load and the process has exited.
C7_Witness == err = "load" /\ bpc = "exited" /\ exitStatus = 1

\* The result the aggregator holds for item i
ResultAt(i) == CHOOSE r \in acc : r.idx = i

C2_IdempotentBuild ==
    /\ (run >= 2 /\ bpc = "exited" /\ snap # <<>>) => files = snap[1]
    /\ bpc = "done" =>
          /\ Len(manifestFile.data) = Cardinality(Range(items))
          /\ \A i, j \in 1..Len(manifestFile.data) :
                i # j => manifestFile.data[i].file # manifestFile.data[j].file

\* The admissions logged for the window that started at ws
AdmittedIn(ws) == Cardinality({k \in 1..Len(admitLog) : admitLog[k].ws = ws})

\* Every admission lies in its window, windows are 60 s apart, and no
\* window has more than rpm admissions
AdmissionBound ==
    rpm > 0 =>
        \A k \in 1..Len(admitLog) :
            /\ AdmittedIn(admitLog[k].ws) <= rpm
            /\ admitLog[k].ws <= admitLog[k].t
            /\ admitLog[k].t < admitLog[k].ws + WindowSecs
            /\ \A l \in 1..Len(admitLog) :
                  \/ admitLog[l].ws = admitLog[k].ws
                  \/ admitLog[l].ws >= admitLog[k].ws + WindowSecs
                  \/ admitLog[k].ws >= admitLog[l].ws + WindowSecs

\* The admissions of the window the clock is in
AdmittedNow == IF WindowElapsed THEN 0 ELSE AdmittedIn(windowStart)

\* C9: with rpm > 0 no window of the limiter admits more than rpm
\* acquisitions under any interleaving of the callers; an acquire that finds
\* fewer than rpm admissions in the window returns without blocking; one
\* that finds rpm of them blocks, stays blocked until the window boundary,
\* and is admitted only in a window that started at or after that boundary;
\* with rpm = 0 every acquire admits at once.
C9_AdmissionBound ==
    [][/\ AdmissionBound'
       /\ \A w \in Workers :
             /\ (wpc[w] = "acquire" /\ wpc'[w] # "acquire") =>
                   /\ rpm = 0 => wpc'[w] = "call" /\ wws[w] = NotBlocked
                   /\ (rpm > 0 /\ AdmittedNow < rpm) => wpc'[w] = "call"
                   /\ (rpm > 0 /\ AdmittedNow >= rpm) =>
                         wpc'[w] = "blocked" /\ wws'[w] = windowStart'
                   /\ (wpc'[w] = "call" /\ wws[w] # NotBlocked) =>
                         /\ now >= wws[w] + WindowSecs
                         /\ windowStart' >= wws[w] + WindowSecs
                         /\ count' <= rpm
             /\ (wpc[w] = "blocked" /\ wpc'[w] # "blocked") =>
                   now >= wws[w] + WindowSecs]_vars

\* C9 witness: rpm acquisitions were admitted in the first window at once,
\* and one more, which had to wait, in the next window.
C9_Witness ==
    /\ rpm > 0 /\ Len(admitLog) = rpm + 1
    /\ \A k \in 1..rpm : admitLog[k].ws = 0 /\ ~admitLog[k].waited
    /\ admitLog[rpm + 1].waited
    /\ admitLog[rpm + 1].ws >= WindowSecs

\* C10: for every item count, batch size, worker count and interleaving,
\* the collection the pool returns holds one result per submitted item, the
\* result at position i being that of the item submitted at index i; there
\* is no collection before every item has its result.
C10_FinalInSubmissionOrder ==
    /\ gen = "ok" =>
          /\ Len(final) = Len(items)
          /\ \A i \in 1..Len(final) : final[i].idx = i /\ final[i] \in acc
    /\ final # <<>> =>
          /\ gen = "ok"
          /\ \A i \in 1..Len(items) : \E r \in acc : r.idx = i

\* C10 witness: the pool has returned the collection of three items that
\* completed in another order than they were submitted in.
C10_Witness ==
    /\ gen = "ok" /\ Len(items) = 3
    /\ doneOrder = <<3, 1, 2>>
    /\ Len(final) = 3

\* The run of the pool has returned its collection: one result per item, at
\* the item's submission index, a Failure exactly for the items whose call or
\* callback returned an error
OneResultPerItem ==
    /\ Len(final) = Len(items)
    /\ \A k \in 1..Len(items) :
          /\ final[k].idx = k
          /\ final[k].res = "Failure" <=> k \in hist.failed
          /\ final[k].res = "Success" <=> k \notin hist.failed

\* C11: an error of one item (of its completion call or of its callback)
\* becomes that item's Failure and aborts neither the other items nor the
\* pool: the pool is never aborted by it, a run that started returns, and
\* the collection it returns holds one result per item at the item's index,
\* the Failure at the index of the item that failed and a Success at every
\* other index.
C11_PartialFailureTolerated ==
    /\ [](~aborted /\ gen # "error")
    /\ [](gen = "ok" => OneResultPerItem)
    /\ (gen = "running") ~> (gen = "ok")

\* a run of two items has returned: the first failed, the second, which was
\* still to be done when the first failed, succeeded
C11_Witness ==
    /\ gen = "ok" /\ Len(items) = MaxItems
    /\ hist.failed = {1}
    /\ doneOrder[1] = 1
    /\ final[1].res = "Failure" /\ \A k \in 2..Len(final) : final[k].res = "Success"

\* The callback invocations that hold an id and have not yet finished their
\* exists-check and write
InCallback == {w \in Workers : wpc[w] \in {"cb_push", "cb_check", "cb_write"}}

\* Two items of the run whose names derive the same file name
SameFile(i, j) ==
    /\ i # j
    /\ test_name_to_filename(items[i]) = test_name_to_filename(items[j])

\* What the callback of item i returned, once it has
Returned(i, ret) == [idx |-> i, ret |-> ret] \in hist.returned
HasReturned(i) == \E ret \in {"Written", "Skipped", "Err"} : Returned(i, ret)

KeptOnDisk(i) ==
    LET f == test_name_to_filename(items[i]) IN
    /\ files[f].exists
    /\ \/ files[f] = File(Content(items[i], Script(items[i], run)))
       \/ \E j \in 1..Len(items) :
             SameFile(i, j) /\ (Returned(j, "Written") \/ Returned(j, "Err"))

\* C13: when build_scripts_from_plan returns an error, build_from_plan
\* returns that error (and main exits with status 1) without writing
\* manifest.json, and from the return of the error on no script file changes:
\* every file a callback invocation of the run wrote is still on disk;
\* manifest.json is written only after generation has returned successfully.
C13_GenerationErrorKeepsFiles ==
    [][/\ (gen = "error" /\ bpc = "generate") => (bpc' = "failed" /\ err' = "generate")
       /\ gen = "error" =>
             /\ files' = files /\ manifestFile' = manifestFile
             /\ hist'.flushes = 0 /\ ~manifestFile'.exists
       /\ gen' = "error" =>
             \A i \in 1..Len(items') : Returned(i, "Written")' => KeptOnDisk(i)'
       /\ (err' = "generate" /\ bpc' = "exited") => exitStatus' = 1
       /\ (bpc' = "flush" \/ manifestFile' # manifestFile) => gen = "ok"]_vars

\* the run was cancelled after the callback of its first item had written
\* the file: the process has exited with status 1, the file is on disk with
\* its content and there is no manifest.json
C13_Witness ==
    /\ err = "generate" /\ bpc = "exited" /\ exitStatus = 1
    /\ Len(items) = MaxItems
    /\ Returned(1, "Written")
    /\ files[test_name_to_filename(items[1])] = File(Content(items[1], Script(items[1], run)))
    /\ ~manifestFile.exists /\ hist.flushes = 0

\* The plan file and the --e2e flag disagree
ModeMismatch == planFile.e2e # args.e2e

\* The item list of the plan file's own mode
OwnModeItems == IF planFile.e2e THEN planFile.scenarios ELSE planFile.tests

\* C14: the plan's mode selects what is built, the --e2e flag does not: a
\* loaded plan whose mode differs from the flag gives a warning and nothing
\* else; the items generated are those of the plan's own mode; the
\* invocation fails only when one of its steps fails, never for the
\* mismatch; and when no step fails it creates the output directory,
\* generates every item of the plan and writes the manifest with one entry
\* per item, whether the two agree or not.
C14_ModeFromPlan ==
    /\ (bpc # "load" /\ err # "load") => (plan = planFile /\ (warned <=> ModeMismatch))
    /\ hist.generated => (items = OwnModeItems /\ items # <<>>)
    /\ err \in {"none", "load", "mkdir", "generate", "manifest"}
    /\ (bpc = "failed" \/ err # "none") => faults > 0
    /\ exitStatus = 1 => faults > 0
    /\ (bpc \in {"done", "exited"} /\ faults = 0) =>
          /\ dirExists /\ hist.mkdir /\ hist.generated /\ gen = "ok"
          /\ Len(final) = Len(OwnModeItems)
          /\ Len(entries) = Len(OwnModeItems)
          /\ {entries[k].name : k \in 1..Len(entries)} = Range(OwnModeItems)
          /\ manifestFile = File(ManifestJson(entries))
          /\ bpc = "exited" => exitStatus = 0

\* an E2E plan built without --e2e: the warning was given, the two scenarios
\* of the plan were generated, the manifest was written and the process has
\* exited with status 0
C14_Witness ==
    /\ planFile.e2e /\ ~args.e2e /\ warned
    /\ bpc = "exited" /\ exitStatus = 0 /\ faults = 0
    /\ Len(planFile.scenarios) = MaxItems /\ items = planFile.scenarios
    /\ Len(entries) = MaxItems
    /\ manifestFile = File(ManifestJson(entries))

=============================================================================
